---- MODULE Spec2Model ----
(***************************************************************************)
(* A model of the symspell package: the dictionary index                   *)
(* (CreateDictionaryEntry, EditsPrefix, GetStringHash, the SuggestionStage),*)
(* the single-term Lookup and the DamerauOSA distance comparer.            *)
(*                                                                         *)
(* Strings are sequences of rune values.  The alphabet is ASCII, so the    *)
(* byte length len(s) of the source equals the rune length and s[i] is the *)
(* i-th rune; sequences are 1-based where the source is 0-based.           *)
(***************************************************************************)
EXTENDS Integers, Sequences, FiniteSets, TLC

\* ------------------------------------------------------------------ bounds
\* longest string given to the engine (keys and lookup inputs)
MaxLen == 3
\* largest number of terms stored in words and belowThresholdWords together
MaxWords == 2
\* largest count a single CreateDictionaryEntry call inserts
MaxCount == 2
\* largest total a term's count is let to reach in the dictionary runs
MaxTotal == 2
\* largest maxDistance given to DamerauOSA.Distance in the comparer runs
MaxDist == 3
\* number of Distance calls made on one comparer in the comparer runs
MaxCalls == 2
\* number of CreateDictionaryEntry calls of a counting run
MaxInserts == 3
\* longest key of a counting run
MaxKeyLen == 2
\* longest key given to EditsPrefix in the delete-set runs
MaxEditKeyLen == 4
\* the longest input of LookupCompound
MaxInputLen == 4
\* most nodes of a stage that staging.Add is still called on
MaxNodes == 4

\* the runes 'a' and 'b'
Alphabet == {97, 98}

RECURSIVE StrUpTo(_)
StrUpTo(n) ==
    IF n = 0 THEN {<< >>}
    ELSE LET S == StrUpTo(n - 1)
         IN  S \cup {Append(s, c) : s \in {t \in S : Len(t) = n - 1}, c \in Alphabet}

AllStr == StrUpTo(MaxLen)

\* ------------------------------------------------------- helper functions
min(a, b) == IF a < b THEN a ELSE b

max(a, b) == IF a > b THEN a ELSE b

abs(a) == IF a < 0 THEN 0 - a ELSE a

\* s[from:to] of the source, 0-based and half-open
Slice(s, from, to) == SubSeq(s, from + 1, to)

\* word[:i] + word[i+1:]
DeleteAt(word, i) == Slice(word, 0, i) \o Slice(word, i + 1, Len(word))

\* strings.ContainsRune
ContainsRune(s, r) == \E k \in 1..Len(s) : s[k] = r

\* --------------------------------------------------------- int64 counts
\* An int64 count is kept as its offset from 0 (top = FALSE: the value off)
\* or from math.MaxInt64 (top = TRUE: the value MaxInt64 - off, off >= 0).
\* The offsets of a run stay far below MaxInt64 / 2, so the two ranges
\* never meet and the arithmetic below is exact.
I64(n) == [top |-> FALSE, off |-> n]

MaxInt64 == [top |-> TRUE, off |-> 0]

\* a < b
I64Less(a, b) ==
    IF a.top = b.top
    THEN (IF a.top THEN a.off > b.off ELSE a.off < b.off)
    ELSE b.top

\* math.MaxInt64 - a, for a >= 0
MaxMinus(a) == [top |-> ~a.top, off |-> a.off]

\* a + b where the sum does not exceed MaxInt64
I64Plus(a, b) ==
    IF ~a.top /\ ~b.top THEN [top |-> FALSE, off |-> a.off + b.off]
    ELSE IF a.top THEN [top |-> TRUE, off |-> a.off - b.off]
    ELSE [top |-> TRUE, off |-> b.off - a.off]

\* an addition that does not saturate
PlainAdd(countPrevious, count) == I64Plus(count, countPrevious)

\* if math.MaxInt64-countPrevious > count { count += countPrevious }
\* else { count = math.MaxInt64 }
SatAdd(countPrevious, count) ==
    IF I64Less(count, MaxMinus(countPrevious))
    THEN I64Plus(count, countPrevious)
    ELSE MaxInt64

\* ------------------------------------------------------- 32-bit hashing
RECURSIVE BitXor(_, _)
BitXor(a, b) ==
    IF a = 0 THEN b
    ELSE IF b = 0 THEN a
    ELSE (((a % 2) + (b % 2)) % 2) + 2 * BitXor(a \div 2, b \div 2)

RECURSIVE BitAnd(_, _)
BitAnd(a, b) ==
    IF a = 0 \/ b = 0 THEN 0
    ELSE ((a % 2) * (b % 2)) + 2 * BitAnd(a \div 2, b \div 2)

RECURSIVE BitOr(_, _)
BitOr(a, b) ==
    IF a = 0 THEN b
    ELSE IF b = 0 THEN a
    ELSE max(a % 2, b % 2) + 2 * BitOr(a \div 2, b \div 2)

RECURSIVE Pow2(_)
Pow2(n) == IF n = 0 THEN 1 ELSE 2 * Pow2(n - 1)

\* A uint32 is kept as two 16-bit halves, hi * 65536 + lo.
Half == Pow2(16)

\* var hash uint32 = 2166136261 (0x811C9DC5)
FnvOffsetHi == 33052
FnvOffsetLo == 40389

\* hash *= 16777619
FnvPrime == 16777619

\* h ^ uint32(r)
Xor32(h, r) == [hi |-> BitXor(h.hi, r \div Half), lo |-> BitXor(h.lo, r % Half)]

\* h * k in 32-bit wrapping arithmetic (the partial products of the FNV
\* prime stay below 2^31)
Mul32(h, k) ==
    LET kl == k % Half
        kh == k \div Half
        low == h.lo * kl
    IN  [hi |-> ((h.hi * kl) + (h.lo * kh) + (low \div Half)) % Half,
         lo |-> low % Half]

\* h & m, m < 2^31
And32(h, m) == [hi |-> BitAnd(h.hi, m \div Half), lo |-> BitAnd(h.lo, m % Half)]

\* uint32(math.MaxUint32>>(3+compactLevel)) << 2
CompactMask(compactLevel) == (Pow2(32 - (3 + compactLevel)) - 1) * 4

RECURSIVE FnvLoop(_, _, _)
FnvLoop(h, str, k) ==
    IF k > Len(str) THEN h
    ELSE FnvLoop(Mul32(Xor32(h, str[k]), FnvPrime), str, k + 1)

\* SymSpell.GetStringHash computed, for an engine whose compactMask is mask
StringHash(str, mask) ==
    LET lenRunes == Len(str)
        lenMask == IF lenRunes > 3 THEN 3 ELSE lenRunes
        hash == And32(FnvLoop([hi |-> FnvOffsetHi, lo |-> FnvOffsetLo], str, 1), mask)
    IN  hash.hi * Half + BitOr(hash.lo, lenMask)

\* defaultCompactLevel
defaultCompactLevel == 5

\* the hashes of the strings of the runs under the default compactMask,
\* computed once
DefaultHashes == [str \in AllStr |-> StringHash(str, CompactMask(defaultCompactLevel))]

\* SymSpell.GetStringHash, for an engine whose compactMask is mask
GetStringHash(str, mask) ==
    IF mask = CompactMask(defaultCompactLevel) /\ str \in AllStr
    THEN DefaultHashes[str]
    ELSE StringHash(str, mask)

\* ------------------------------------------------- DamerauOSA comparer
\* A comparer is its two scratch arrays; array index j of the source is
\* index j + 1 here.
RECURSIVE Zeros(_)
Zeros(n) == IF n = 0 THEN << >> ELSE Append(Zeros(n - 1), 0)

\* NewDamerauOSA
NewDamerauOSA == [baseChar1Costs |-> << >>, basePrevChar1Costs |-> << >>]

\* nullDistanceResults
nullDistanceResults(string1, string2, maxDistance) ==
    IF string1 = string2 THEN 0
    ELSE LET s1 == Len(string1)
             s2 == Len(string2)
             distance == IF s2 > s1 THEN s2 ELSE s1
         IN  IF distance > maxDistance THEN -1 ELSE distance

RECURSIVE CommonPrefix(_, _, _, _, _)
CommonPrefix(runeStr1, runeStr2, len1, len2, start) ==
    IF start < len1 /\ start < len2 /\ runeStr1[start + 1] = runeStr2[start + 1]
    THEN CommonPrefix(runeStr1, runeStr2, len1, len2, start + 1)
    ELSE start

RECURSIVE CommonSuffix(_, _, _, _, _)
CommonSuffix(runeStr1, runeStr2, len1, len2, start) ==
    IF len1 > 0 /\ len2 > 0 /\ runeStr1[start + len1] = runeStr2[start + len2]
    THEN CommonSuffix(runeStr1, runeStr2, len1 - 1, len2 - 1, start)
    ELSE [len1 |-> len1, len2 |-> len2, start |-> start]

\* prefixSuffixPrep
prefixSuffixPrep(runeStr1, runeStr2) ==
    LET start == CommonPrefix(runeStr1, runeStr2, Len(runeStr1), Len(runeStr2), 0)
    IN  CommonSuffix(runeStr1, runeStr2, Len(runeStr1) - start, Len(runeStr2) - start, start)

\* One pass of the body of the inner loop over j (the same statements in
\* dist and in distanceWithMax), for row i with its char1 and prevChar1.
\* st carries the variables that live across iterations.
CostStep(st, i, j, char1, prevChar1, runeStr2, start) ==
    LET thisTransCost == st.nextTransCost
        nextTransCost == st.prevChar1Costs[j + 1]
        prevChar1Costs == [st.prevChar1Costs EXCEPT ![j + 1] = st.currentCost]
        diagCost == st.leftCharCost
        leftCharCost == st.char1Costs[j + 1]
        prevChar2 == st.char2
        char2 == runeStr2[start + j + 1]
        afterDel == IF st.aboveCharCost < diagCost THEN st.aboveCharCost ELSE diagCost
        afterIns == IF leftCharCost < afterDel THEN leftCharCost ELSE afterDel
        edited == afterIns + 1
        currentCost ==
            IF char1 # char2
            THEN IF i # 0 /\ j # 0 /\ char1 = prevChar2 /\ prevChar1 = char2
                    /\ thisTransCost + 1 < edited
                 THEN thisTransCost + 1
                 ELSE edited
            ELSE diagCost
    IN  [char1Costs |-> [st.char1Costs EXCEPT ![j + 1] = currentCost],
         prevChar1Costs |-> prevChar1Costs,
         currentCost |-> currentCost,
         leftCharCost |-> leftCharCost,
         aboveCharCost |-> currentCost,
         nextTransCost |-> nextTransCost,
         char2 |-> char2]

\* for j := from; j < to; j++ { ... } of row i
RECURSIVE CostRow(_, _, _, _, _, _, _, _)
CostRow(st, i, j, to, char1, prevChar1, runeStr2, start) ==
    IF j >= to THEN st
    ELSE CostRow(CostStep(st, i, j, char1, prevChar1, runeStr2, start),
                 i, j + 1, to, char1, prevChar1, runeStr2, start)

\* the per-row variables at the top of the loop over i
RowStart(st, i) ==
    [st EXCEPT !.leftCharCost = i, !.aboveCharCost = i, !.nextTransCost = 0, !.char2 = 0]

\* a ramp that is not written
FillNothing(costs, j, to) == costs

\* for j := from; j < to; j++ { char1Costs[j] = j + 1 }
RECURSIVE FillRamp(_, _, _)
FillRamp(costs, j, to) ==
    IF j >= to THEN costs ELSE FillRamp([costs EXCEPT ![j + 1] = j + 1], j + 1, to)

\* for j := from; j < to; j++ { char1Costs[j] = v }
RECURSIVE FillConst(_, _, _, _)
FillConst(costs, j, to, v) ==
    IF j >= to THEN costs ELSE FillConst([costs EXCEPT ![j + 1] = v], j + 1, to, v)

StartState(char1Costs, prevChar1Costs) ==
    [char1Costs |-> char1Costs, prevChar1Costs |-> prevChar1Costs, currentCost |-> 0,
     leftCharCost |-> 0, aboveCharCost |-> 0, nextTransCost |-> 0, char2 |-> 0]

Outcome(res, st) ==
    [res |-> res,
     cmp |-> [baseChar1Costs |-> st.char1Costs, basePrevChar1Costs |-> st.prevChar1Costs]]

RECURSIVE distRows(_, _, _, _, _, _, _, _)
distRows(st, i, char1, runeStr1, runeStr2, len1, len2, start) ==
    IF i >= len1 THEN Outcome(st.currentCost, st)
    ELSE LET prevChar1 == char1
             c1 == runeStr1[start + i + 1]
             row == CostRow(RowStart(st, i), i, 0, len2, c1, prevChar1, runeStr2, start)
         IN  \* a row is complete, its last cell holding currentCost, before the
             \* next one starts
             IF row.currentCost = row.char1Costs[len2]
             THEN distRows(row, i + 1, c1, runeStr1, runeStr2, len1, len2, start)
             ELSE Outcome(row.currentCost, row)

\* dist
dist(runeStr1, runeStr2, len1, len2, start, char1Costs, prevChar1Costs) ==
    distRows(StartState(FillRamp(char1Costs, 0, len2), prevChar1Costs),
             0, 0, runeStr1, runeStr2, len1, len2, start)

RECURSIVE distanceWithMaxRows(_, _, _, _, _, _, _, _, _, _, _)
distanceWithMaxRows(st, i, char1, jStart, jEnd, runeStr1, runeStr2, len1, len2, start, maxDistance) ==
    IF i >= len1
    THEN Outcome(IF st.currentCost <= maxDistance THEN st.currentCost ELSE -1, st)
    ELSE LET lenDiff == len2 - len1
             jStartOffset == maxDistance - lenDiff
             prevChar1 == char1
             c1 == runeStr1[start + i + 1]
             jS == IF i > jStartOffset THEN jStart + 1 ELSE jStart
             jE == IF jEnd < len2 THEN jEnd + 1 ELSE jEnd
             row == CostRow(RowStart(st, i), i, jS, jE, c1, prevChar1, runeStr2, start)
         IN  IF row.char1Costs[i + lenDiff + 1] > maxDistance
             THEN Outcome(-1, row)
             ELSE distanceWithMaxRows(row, i + 1, c1, jS, jE, runeStr1, runeStr2,
                                      len1, len2, start, maxDistance)

\* distanceWithMax
distanceWithMax(runeStr1, runeStr2, len1, len2, start, maxDistance, char1Costs, prevChar1Costs) ==
    distanceWithMaxRows(
        StartState(FillConst(FillRamp(char1Costs, 0, maxDistance), maxDistance, len2,
                             maxDistance + 1),
                   prevChar1Costs),
        0, 0, 0, maxDistance, runeStr1, runeStr2, len1, len2, start, maxDistance)

\* DamerauOSA.Distance on the comparer d: the result and the comparer after the call
Distance(d, string1, string2, maxDistance) ==
    IF string1 = << >> \/ string2 = << >>
    THEN [res |-> nullDistanceResults(string1, string2, maxDistance), cmp |-> d]
    ELSE IF maxDistance <= 0
    THEN [res |-> IF string1 = string2 THEN 0 ELSE -1, cmp |-> d]
    ELSE LET iMaxDistance == maxDistance
             swap == Len(string1) > Len(string2)
             runeStr1 == IF swap THEN string2 ELSE string1
             runeStr2 == IF swap THEN string1 ELSE string2
             p == prefixSuffixPrep(runeStr1, runeStr2)
             grow == p.len2 > Len(d.baseChar1Costs)
             char1Costs == IF grow THEN Zeros(p.len2) ELSE d.baseChar1Costs
             prevChar1Costs == IF grow THEN Zeros(p.len2) ELSE d.basePrevChar1Costs
         IN  IF Len(runeStr2) - Len(runeStr1) > iMaxDistance
             THEN [res |-> -1, cmp |-> d]
             ELSE IF p.len1 = 0
             THEN [res |-> IF p.len2 <= iMaxDistance THEN p.len2 ELSE -1, cmp |-> d]
             ELSE IF iMaxDistance < p.len2
             THEN distanceWithMax(runeStr1, runeStr2, p.len1, p.len2, p.start,
                                  iMaxDistance, char1Costs, prevChar1Costs)
             ELSE dist(runeStr1, runeStr2, p.len1, p.len2, p.start, char1Costs,
                       prevChar1Costs)

\* comparer.Compare
Compare(d, string1, string2, maxDistance) == Distance(d, string1, string2, maxDistance)

\* The Damerau-OSA distance itself: insertion, deletion, substitution and
\* transposition of two adjacent runes, each of cost 1 (the reference the
\* comparer is measured against).
RECURSIVE OSA(_, _, _, _)
OSA(a, b, i, j) ==
    IF i = 0 THEN j
    ELSE IF j = 0 THEN i
    ELSE LET sub == OSA(a, b, i - 1, j - 1) + (IF a[i] = b[j] THEN 0 ELSE 1)
             del == OSA(a, b, i - 1, j) + 1
             ins == OSA(a, b, i, j - 1) + 1
             m3 == min(sub, min(del, ins))
         IN  IF i > 1 /\ j > 1 /\ a[i] = b[j - 1] /\ a[i - 1] = b[j]
             THEN min(m3, OSA(a, b, i - 2, j - 2) + 1)
             ELSE m3

\* the Damerau-OSA distance of every pair of strings of the runs
OSATable == [a \in AllStr, b \in AllStr |-> OSA(a, b, Len(a), Len(b))]

TrueDistance(a, b) == OSATable[a, b]

\* ------------------------------------------------------ dictionary index
\* An engine s is the record of the SymSpell fields; a Go map is a function
\* on the set of its keys.
EmptyMap == << >>

Put(map, key, value) == [k \in DOMAIN map \cup {key} |-> IF k = key THEN value ELSE map[k]]

\* a removal that removes nothing
RemoveNothing(map, key) == map

Remove(map, key) == [k \in DOMAIN map \ {key} |-> map[k]]

\* SymSpell.Edits: deleteWords after the call.  EditsFrom is its loop over
\* the positions of word, from position i on, with editDistance already
\* incremented.
RECURSIVE Edits(_, _, _, _)
RECURSIVE EditsFrom(_, _, _, _, _)
EditsFrom(s, word, editDistance, deleteWords, i) ==
    IF i >= Len(word) THEN deleteWords
    ELSE LET deleteStr == DeleteAt(word, i)
         IN  IF deleteStr \in deleteWords
             THEN EditsFrom(s, word, editDistance, deleteWords, i + 1)
             ELSE LET added == deleteWords \cup {deleteStr}
                      deeper ==
                          IF editDistance < s.maxDictionaryEditDistance
                          THEN Edits(s, deleteStr, editDistance, added)
                          ELSE added
                  IN  EditsFrom(s, word, editDistance, deeper, i + 1)

Edits(s, word, editDistance, deleteWords) ==
    IF Len(word) > 1 THEN EditsFrom(s, word, editDistance + 1, deleteWords, 0)
    ELSE deleteWords

\* SymSpell.EditsPrefix
EditsPrefix(s, key) ==
    LET hashSet0 == IF Len(key) <= s.maxDictionaryEditDistance THEN {<< >>} ELSE {}
        prefix == IF Len(key) > s.prefixLength THEN Slice(key, 0, s.prefixLength) ELSE key
    IN  Edits(s, prefix, 0, hashSet0 \cup {prefix})

\* NewSuggestionStage: no staged delete, no node
NewSuggestionStage == [deletes |-> EmptyMap, nodes |-> << >>]

\* SuggestionStage.Add (node index n of the source is nodes[n + 1])
StageAdd(ss, deleteHash, suggestion) ==
    LET entry == IF deleteHash \in DOMAIN ss.deletes THEN ss.deletes[deleteHash]
                 ELSE [count |-> 0, first |-> -1]
    IN  [deletes |-> Put(ss.deletes, deleteHash,
                         [count |-> entry.count + 1, first |-> Len(ss.nodes)]),
         nodes |-> Append(ss.nodes, [suggestion |-> suggestion, next |-> entry.first])]

\* SuggestionStage.CommitTo: its body is commented out, the permanent
\* deletes are returned as they were
CommitTo(ss, permanentDeletes) == permanentDeletes

\* for deleteStr := range edits { staging.Add(...) }: a Go map is ranged
\* over in any order, so this is the set of the stages the loop can leave
RECURSIVE StageAll(_, _, _, _)
StageAll(s, ss, key, edits) ==
    IF edits = {} THEN {ss}
    ELSE UNION {StageAll(s, StageAdd(ss, GetStringHash(d, s.compactMask), key), key,
                         edits \ {d}) : d \in edits}

\* an indexing loop that files nothing
IndexNone(s, deletes, key, edits) == deletes

\* for deleteStr := range edits { s.deletes[deleteHash][key] = struct{}{} }
RECURSIVE IndexAll(_, _, _, _)
IndexAll(s, deletes, key, edits) ==
    IF edits = {} THEN deletes
    ELSE LET d == CHOOSE e \in edits : TRUE
             deleteHash == GetStringHash(d, s.compactMask)
             bucket == IF deleteHash \in DOMAIN deletes THEN deletes[deleteHash] ELSE {}
         IN  IndexAll(s, Put(deletes, deleteHash, bucket \cup {key}), key, edits \ {d})

\* a comparison under which no count is below the threshold
BelowNever(count, countThreshold) == FALSE

\* count < s.countThreshold
Below(count, countThreshold) == I64Less(count, countThreshold)

\* The part of SymSpell.CreateDictionaryEntry before the indexing: the
\* count and the two count maps after it, and whether the call goes on to
\* index key (it returned false otherwise).
Counted(s, key, count0) ==
    LET count == IF I64Less(count0, I64(1)) THEN I64(0) ELSE count0
        stay(words, below) == [index |-> FALSE, count |-> count, words |-> words,
                               belowThresholdWords |-> below]
        go(cnt, below) == [index |-> TRUE, count |-> cnt, words |-> s.words,
                           belowThresholdWords |-> below]
        inBelow == key \in DOMAIN s.belowThresholdWords
        inWords == key \in DOMAIN s.words
    IN  IF I64Less(count0, I64(1)) /\ I64Less(I64(0), s.countThreshold)
        THEN stay(s.words, s.belowThresholdWords)
        ELSE IF I64Less(I64(1), s.countThreshold)
        THEN IF inBelow
             THEN LET sum == SatAdd(s.belowThresholdWords[key], count)
                  IN  IF ~Below(sum, s.countThreshold)
                      THEN go(sum, Remove(s.belowThresholdWords, key))
                      ELSE stay(s.words, Put(s.belowThresholdWords, key, sum))
             ELSE IF inWords
             THEN stay(Put(s.words, key, SatAdd(s.words[key], count)),
                       s.belowThresholdWords)
             ELSE IF Below(count, s.countThreshold)
             THEN stay(s.words, Put(s.belowThresholdWords, key, count))
             ELSE go(count, s.belowThresholdWords)
        ELSE IF inWords
             THEN stay(Put(s.words, key, SatAdd(s.words[key], count)),
                       s.belowThresholdWords)
             ELSE IF Below(count, s.countThreshold)
             THEN stay(s.words, Put(s.belowThresholdWords, key, count))
             ELSE go(count, s.belowThresholdWords)

\* A *SuggestionStage is nil, or points to a stage: the empty sequence, or
\* the sequence of that one stage.
Nil == << >>

Ref(stage) == <<stage>>

\* SymSpell.CreateDictionaryEntry(key, count, staging): the set of the
\* outcomes [ret, s, staging] of the call (one outcome unless a stage is
\* filled, whose node order follows the map's iteration order)
CreateDictionaryEntry(s, key, count, staging) ==
    LET c == Counted(s, key, count)
        kept == [s EXCEPT !.words = c.words, !.belowThresholdWords = c.belowThresholdWords]
        added == [kept EXCEPT
                     !.words = Put(c.words, key, c.count),
                     !.maxDictionaryWordLength =
                         IF Len(key) > @ THEN Len(key) ELSE @]
        edits == EditsPrefix(s, key)
    IN  IF ~c.index THEN {[ret |-> FALSE, s |-> kept, staging |-> staging]}
        ELSE IF staging # Nil
        THEN {[ret |-> TRUE, s |-> added, staging |-> Ref(st)] :
                 st \in StageAll(s, staging[1], key, edits)}
        ELSE {[ret |-> TRUE,
               s |-> [added EXCEPT !.deletes = IndexAll(s, s.deletes, key, edits)],
               staging |-> staging]}

\* SymSpell.CommitStaged
CommitStaged(s, staging) == [s EXCEPT !.deletes = CommitTo(staging[1], s.deletes)]

\* ----------------------------------------------------------------- Lookup
\* Verbosity
Top == 0
Closest == 1
All == 2

\* SuggestItem
SuggestItem(term, distance, count) == [term |-> term, distance |-> distance, count |-> count]

\* an order by distance ascending, then count ascending
LessCountAscending(x, y) ==
    IF x.distance = y.distance THEN I64Less(x.count, y.count)
    ELSE x.distance < y.distance

\* SuggestItems.Less, on two items
Less(x, y) ==
    IF x.distance = y.distance THEN I64Less(y.count, x.count)
    ELSE x.distance < y.distance

\* SymSpell.deleteInSuggestionPrefix.  ScanTo is the inner loop: the first
\* j' >= j with j' = suggestionLen or suggestion[j'] = delChar.
RECURSIVE ScanTo(_, _, _, _)
ScanTo(suggestion, suggestionLen, delChar, j) ==
    IF j < suggestionLen /\ delChar # suggestion[j + 1]
    THEN ScanTo(suggestion, suggestionLen, delChar, j + 1)
    ELSE j

RECURSIVE DeleteScan(_, _, _, _, _, _)
DeleteScan(delete, deleteLen, suggestion, suggestionLen, i, j) ==
    IF i >= deleteLen THEN TRUE
    ELSE LET j2 == ScanTo(suggestion, suggestionLen, delete[i + 1], j)
         IN  IF j2 = suggestionLen THEN FALSE
             ELSE DeleteScan(delete, deleteLen, suggestion, suggestionLen, i + 1, j2)

deleteInSuggestionPrefix(s, delete, deleteLen, suggestion, suggestionLen) ==
    IF deleteLen = 0 THEN TRUE
    ELSE DeleteScan(delete, deleteLen, suggestion,
                    IF s.prefixLength < suggestionLen THEN s.prefixLength ELSE suggestionLen,
                    0, 0)

\* The tail test of the branch (s.prefixLength - maxEditDistance) ==
\* candidateLen of Lookup: TRUE when the suggestion is skipped.
TailDiffers(s, input, suggestion) ==
    LET inputLen == Len(input)
        suggestionLen == Len(suggestion)
        minLen == min(inputLen, suggestionLen) - s.prefixLength
    IN  \/ /\ minLen > 1
           /\ Slice(input, inputLen - minLen, inputLen)
                  # Slice(suggestion, suggestionLen - minLen, suggestionLen)
        \/ /\ minLen > 0
           /\ input[inputLen - minLen + 1] # suggestion[suggestionLen - minLen + 1]
           /\ \/ input[inputLen - minLen] # suggestion[suggestionLen - minLen + 1]
              \/ input[inputLen - minLen + 1] # suggestion[suggestionLen - minLen]

\* The filters at the top of the loop over a bucket: TRUE when the
\* suggestion is skipped before any distance is looked at.
Filtered(s, q, ls, candidate, suggestion) ==
    LET suggestionLen == Len(suggestion)
        candidateLen == Len(candidate)
        suggPrefixLen == min(suggestionLen, s.prefixLength)
    IN  \/ suggestion = q.input
        \/ abs(suggestionLen - Len(q.input)) > ls.maxEditDistance2
        \/ suggestionLen < candidateLen
        \/ (suggestionLen = candidateLen /\ suggestion # candidate)
        \/ (suggPrefixLen > q.inputPrefixLen
              /\ (suggPrefixLen - candidateLen) > ls.maxEditDistance2)

\* The four-way choice of the distance of a suggestion.  skip: the loop
\* continues with the next suggestion; hashset2 and cmp are the visited
\* suggestions and the comparer after it.
Measured(s, q, ls, candidate, suggestion) ==
    LET inputLen == Len(q.input)
        suggestionLen == Len(suggestion)
        candidateLen == Len(candidate)
        seen == suggestion \in ls.hashset2
        marked == ls.hashset2 \cup {suggestion}
        out(skip, distance, hashset2, cmp) ==
            [skip |-> skip, distance |-> distance, hashset2 |-> hashset2, cmp |-> cmp]
    IN  IF candidateLen = 0
        THEN LET distance == max(inputLen, suggestionLen)
             IN  IF distance > ls.maxEditDistance2 THEN out(TRUE, distance, ls.hashset2, ls.cmp)
                 ELSE out(seen, distance, marked, ls.cmp)
        ELSE IF suggestionLen = 1
        THEN LET distance == IF ~ContainsRune(q.input, suggestion[1])
                             THEN inputLen ELSE inputLen - 1
             IN  IF distance > ls.maxEditDistance2 THEN out(TRUE, distance, ls.hashset2, ls.cmp)
                 ELSE out(seen, distance, marked, ls.cmp)
        ELSE IF (s.prefixLength - q.maxEditDistance) = candidateLen
        THEN out(TailDiffers(s, q.input, suggestion), 0, ls.hashset2, ls.cmp)
        ELSE IF q.verbosity # All
                /\ ~deleteInSuggestionPrefix(s, candidate, candidateLen, suggestion,
                                             suggestionLen)
        THEN out(TRUE, 0, ls.hashset2, ls.cmp)
        ELSE IF seen THEN out(TRUE, 0, ls.hashset2, ls.cmp)
        ELSE LET d == Compare(ls.cmp, q.input, suggestion, ls.maxEditDistance2)
             IN  out(d.res < 0, d.res, marked, d.cmp)

\* The admission of a measured suggestion under the verbosity
Admitted(s, q, ls, suggestion, distance) ==
    LET si == SuggestItem(suggestion, distance, s.words[suggestion])
    IN  IF distance > ls.maxEditDistance2 THEN ls
        ELSE IF Len(ls.suggestions) > 0 /\ q.verbosity = Top
        THEN IF distance < ls.maxEditDistance2
                \/ I64Less(ls.suggestions[1].count, si.count)
             THEN [ls EXCEPT !.maxEditDistance2 = distance,
                             !.suggestions = [@ EXCEPT ![1] = si]]
             ELSE ls
        ELSE LET kept == IF Len(ls.suggestions) > 0 /\ q.verbosity = Closest
                            /\ distance < ls.maxEditDistance2
                         THEN << >> ELSE ls.suggestions
             IN  [ls EXCEPT !.maxEditDistance2 = IF q.verbosity # All THEN distance ELSE @,
                            !.suggestions = Append(kept, si)]

\* One pass of the body of: for suggestion := range dictSuggestions
Considered(s, q, ls, candidate, suggestion) ==
    IF Filtered(s, q, ls, candidate, suggestion) THEN ls
    ELSE LET m == Measured(s, q, ls, candidate, suggestion)
             ls2 == [ls EXCEPT !.hashset2 = m.hashset2, !.cmp = m.cmp]
         IN  IF m.skip THEN ls2 ELSE Admitted(s, q, ls2, suggestion, m.distance)

\* for suggestion := range dictSuggestions: a Go map is ranged over in any
\* order, so from the loop states in from this is the set of the loop
\* states the range over the rest of the bucket can end in.
RECURSIVE Ranged(_, _, _, _, _)
Ranged(s, q, from, candidate, rest) ==
    IF rest = {} THEN from
    ELSE UNION {Ranged(s, q, {Considered(s, q, ls, candidate, x) : ls \in from},
                       candidate, rest \ {x}) : x \in rest}

\* for i := 0; i < candidateLen; i++: the deletes of the candidate that are
\* new are appended to the candidates
RECURSIVE Expanded(_, _, _)
Expanded(ls, candidate, i) ==
    IF i >= Len(candidate) THEN ls
    ELSE LET delete == DeleteAt(candidate, i)
         IN  IF delete \in ls.hashset1 THEN Expanded(ls, candidate, i + 1)
             ELSE Expanded([ls EXCEPT !.hashset1 = @ \cup {delete},
                                      !.candidates = Append(@, delete)],
                           candidate, i + 1)

\* for candidatePointer < len(candidates): the loop states it can end in
RECURSIVE Candidates(_, _, _)
Candidates(s, q, ls) ==
    IF ls.candidatePointer >= Len(ls.candidates) THEN {ls}
    ELSE LET candidate == ls.candidates[ls.candidatePointer + 1]
             next == [ls EXCEPT !.candidatePointer = @ + 1]
             candidateLen == Len(candidate)
             lengthDiff == q.inputPrefixLen - candidateLen
             hash == GetStringHash(candidate, s.compactMask)
             after == IF hash \in DOMAIN s.deletes
                      THEN Ranged(s, q, {next}, candidate, s.deletes[hash])
                      ELSE {next}
             grown(l) ==
                 IF lengthDiff < q.maxEditDistance /\ candidateLen <= s.prefixLength
                    /\ ~(q.verbosity # All /\ lengthDiff >= l.maxEditDistance2)
                 THEN Expanded(l, candidate, 0)
                 ELSE l
         IN  IF lengthDiff > ls.maxEditDistance2
             THEN IF q.verbosity = All THEN Candidates(s, q, next) ELSE {next}
             ELSE UNION {Candidates(s, q, grown(l)) : l \in after}

\* sort.Sort(suggestions): an insertion sort by Less (what sort.Sort runs on
\* a slice of at most 12 items).  Sunk moves a[j] down while it is Less than
\* its left neighbour.
RECURSIVE Sunk(_, _)
Sunk(a, j) ==
    IF j > 1 /\ Less(a[j], a[j - 1])
    THEN Sunk([a EXCEPT ![j] = a[j - 1], ![j - 1] = a[j]], j - 1)
    ELSE a

RECURSIVE Sorted(_, _)
Sorted(a, i) == IF i > Len(a) THEN a ELSE Sorted(Sunk(a, i), i + 1)

\* the first item of each term, in order
RECURSIVE Unique(_, _, _, _)
Unique(a, i, uniqueSuggestions, seen) ==
    IF i > Len(a) THEN uniqueSuggestions
    ELSE IF a[i].term \in seen THEN Unique(a, i + 1, uniqueSuggestions, seen)
    ELSE Unique(a, i + 1, Append(uniqueSuggestions, a[i]), seen \cup {a[i].term})

\* if len(suggestions) > 1 { sort.Sort(suggestions); ... }
Ordered(suggestions) ==
    IF Len(suggestions) > 1 THEN Unique(Sorted(suggestions, 2), 1, << >>, {})
    ELSE suggestions

\* end: the item added for an unknown input
Ended(suggestions, input, maxEditDistance, includeUnknown) ==
    IF includeUnknown /\ Len(suggestions) = 0
    THEN <<SuggestItem(input, maxEditDistance + 1, I64(0))>>
    ELSE suggestions

\* an exact match that also takes a key of deletes for a word
ExactMatchOrDelete(s, input) ==
    IF input \in DOMAIN s.words THEN <<SuggestItem(input, 0, s.words[input])>>
    ELSE IF GetStringHash(input, s.compactMask) \in DOMAIN s.deletes
    THEN <<SuggestItem(input, 0, I64(0))>>
    ELSE << >>

\* if suggestionCount, ok = s.words[input]; ok { suggestions = append(...) }
ExactMatch(s, input) ==
    IF input \in DOMAIN s.words THEN <<SuggestItem(input, 0, s.words[input])>> ELSE << >>

\* a Lookup without the early exit
ExactOnlyNever(exact, verbosity) == FALSE

\* early exit - return exact match, unless caller wants all matches
ExactOnly(exact, verbosity) == Len(exact) > 0 /\ verbosity # All

\* SymSpell.Lookup up to the label end, for maxEditDistance <=
\* s.maxDictionaryEditDistance: the set of the lists it can reach end with
Suggestions(s, input, verbosity, maxEditDistance) ==
    LET inputLen == Len(input)
        exact == ExactMatch(s, input)
        inputPrefixLen == IF inputLen > s.prefixLength THEN s.prefixLength ELSE inputLen
        q == [input |-> input, verbosity |-> verbosity, maxEditDistance |-> maxEditDistance,
              inputPrefixLen |-> inputPrefixLen]
        ls0 == [suggestions |-> exact,
                maxEditDistance2 |-> maxEditDistance,
                hashset1 |-> {},
                hashset2 |-> {input},
                candidates |-> <<Slice(input, 0, inputPrefixLen)>>,
                candidatePointer |-> 0,
                cmp |-> NewDamerauOSA]
    IN  IF inputLen - maxEditDistance > s.maxDictionaryWordLength THEN {<< >>}
        ELSE IF ExactOnly(exact, verbosity) THEN {exact}
        ELSE IF maxEditDistance = 0 THEN {exact}
        ELSE {Ordered(l.suggestions) : l \in Candidates(s, q, ls0)}

\* SymSpell.Lookup: the set of the lists the call can return
Lookup(s, input, verbosity, maxEditDistance, includeUnknown) ==
    {Ended(suggestions, input, maxEditDistance, includeUnknown) :
        suggestions \in Suggestions(s, input, verbosity, maxEditDistance)}

\* --------------------------------------------------------- LookupCompound
\* strings.ToLower, on the runes of ASCII
ToLower(text) ==
    [k \in 1..Len(text) |-> IF text[k] >= 65 /\ text[k] <= 90 THEN text[k] + 32 ELSE text[k]]

\* re: Go reads ['...\w-[_]]+ as the class of ', the three runes after it,
\* \w (0-9, A-Z, a-z, _), -, [ and _, followed by one or more ]
InClass(r) ==
    \/ r \in {39, 226, 8364, 8482, 45, 91, 95}
    \/ r \in 48..57
    \/ r \in 65..90
    \/ r \in 97..122

\* the index after the run of ] that starts at index k
RECURSIVE Brackets(_, _)
Brackets(text, k) ==
    IF k <= Len(text) /\ text[k] = 93 THEN Brackets(text, k + 1) ELSE k

\* re.FindAllString(text, -1), looking from index i on
RECURSIVE FindAllString(_, _)
FindAllString(text, i) ==
    IF i >= Len(text) THEN << >>
    ELSE IF InClass(text[i]) /\ text[i + 1] = 93
    THEN LET j == Brackets(text, i + 1)
         IN  <<SubSeq(text, i, j - 1)>> \o FindAllString(text, j)
    ELSE FindAllString(text, i + 1)

\* parseWords
parseWords(text) == FindAllString(ToLower(text), 1)

\* A float64 of LookupCompound is kept as num * n^pow, n being s.n
\* (1024908267229.0): float64(count), for a count below n
Float64(count) == [num |-> count.off, pow |-> 0]

\* s.n
FloatN == [num |-> 1, pow |-> 1]

\* f / s.n
OverN(f) == [num |-> f.num, pow |-> f.pow - 1]

\* f * g
Times(f, g) == [num |-> f.num * g.num, pow |-> f.pow + g.pow]

\* f > g, for nums below n
Greater(f, g) ==
    IF f.pow = g.pow THEN f.num > g.num
    ELSE IF f.pow > g.pow THEN f.num > 0
    ELSE f.num > 0 /\ g.num = 0

\* int64(s.n * (float64(c) / s.n)) for c = 1, 2, ...: the product is rounded
\* to the nearest float64 and may fall just below c
RoundTrip == <<0, 1, 3, 3, 5, 6, 7, 7>>

\* int64(s.n): 1024908267229, 1024 times 10^9 and the rest
IntN == [top |-> FALSE, off |-> 908267229, billions |-> 1024]

\* int64(f): zero below 1, the rounded product for s.n * (c / s.n), s.n itself
Int64Of(f) ==
    IF f.num = 0 \/ f.pow < 0 THEN I64(0)
    ELSE IF f.pow = 0 THEN I64(RoundTrip[f.num])
    ELSE IntN

\* minInt64
minInt64(a, b) == IF I64Less(a, b) THEN a ELSE b

\* bigramCountMin: math.MaxInt64
bigramCountMin == MaxInt64

\* int64(10 / math.Pow(10, float64(len(term))))
UnknownCount(term) == I64(IF Len(term) = 0 THEN 10 ELSE IF Len(term) = 1 THEN 1 ELSE 0)

\* the item of a term without suggestion
Unknown(term, editDistanceMax) ==
    SuggestItem(term, editDistanceMax + 1, UnknownCount(term))

\* Combi check: the item that replaces the last part, or Nil when the
\* combined term does not replace it
Combined(suggestionParts, suggestions, suggestionsCombi, term, editDistanceMax) ==
    IF Len(suggestionsCombi) = 0 THEN << >>
    ELSE LET best1 == suggestionParts[Len(suggestionParts)]
             best2 == IF Len(suggestions) > 0 THEN suggestions[1]
                      ELSE Unknown(term, editDistanceMax)
             distance1 == best1.distance + best2.distance
             combi == suggestionsCombi[1]
         IN  IF /\ distance1 >= 0
                /\ \/ combi.distance + 1 < distance1
                   \/ /\ combi.distance + 1 = distance1
                      /\ Greater(Float64(combi.count),
                                 Times(OverN(Float64(best1.count)), Float64(best2.count)))
             THEN <<SuggestItem(combi.term, combi.distance + 1, combi.count)>>
             ELSE << >>

\* one split pair with suggestions for both parts: the best split and the
\* comparer after it. s.bigrams is empty (nothing writes it), so the count
\* is the Naive Bayes estimate
Paired(term, suggestions1, suggestions2, editDistanceMax, acc) ==
    LET splitTerm == suggestions1[1].term \o <<32>> \o suggestions2[1].term
        o == Compare(acc.cmp, term, splitTerm, editDistanceMax)
        distance2 == IF o.res < 0 THEN editDistanceMax + 1 ELSE o.res
        held == acc.best # << >>
        best == IF held /\ distance2 < acc.best[1].distance THEN << >> ELSE acc.best
        count == minInt64(bigramCountMin,
                          Int64Of(Times(OverN(Float64(suggestions1[1].count)),
                                        Float64(suggestions2[1].count))))
    IN  IF held /\ distance2 > acc.best[1].distance THEN [best |-> acc.best, cmp |-> o.cmp]
        ELSE IF best = << >> \/ I64Less(best[1].count, count)
        THEN [best |-> <<SuggestItem(splitTerm, distance2, count)>>, cmp |-> o.cmp]
        ELSE [best |-> best, cmp |-> o.cmp]

\* the strings LookupCompound gives to Lookup: each term, each term joined
\* to the one before it, and the two parts of each split of a term
Asked(termList1) ==
    LET at == 1..Len(termList1)
    IN  {termList1[i] : i \in at}
        \cup {termList1[i - 1] \o termList1[i] : i \in at \ {1}}
        \cup UNION {{Slice(termList1[i], 0, j) : j \in 1..(Len(termList1[i]) - 1)} : i \in at}
        \cup UNION {{Slice(termList1[i], j, Len(termList1[i])) :
                        j \in 1..(Len(termList1[i]) - 1)} : i \in at}

\* s.Lookup(term, Top, editDistanceMax, false) for each of these strings: the
\* lists the call can return (Lookup leaves the engine as it was)
Tops(s, termList1, editDistanceMax) ==
    [term \in Asked(termList1) |-> Lookup(s, term, Top, editDistanceMax, FALSE)]

\* the body of for j := 1; j < len(termList1[i]); j++ for the split at j:
\* the best splits it can leave
SplitAt(tops, term, editDistanceMax, j, acc) ==
    UNION {
        IF Len(suggestions1) = 0 THEN {acc}
        ELSE {IF Len(suggestions2) = 0 THEN acc
              ELSE Paired(term, suggestions1, suggestions2, editDistanceMax, acc) :
              suggestions2 \in tops[Slice(term, j, Len(term))]} :
        suggestions1 \in tops[Slice(term, 0, j)]}

\* the loop over the splits, from the split at j on
RECURSIVE Split(_, _, _, _, _)
Split(tops, term, editDistanceMax, j, acc) ==
    IF j >= Len(term) THEN {acc}
    ELSE UNION {Split(tops, term, editDistanceMax, j + 1, next) :
                next \in SplitAt(tops, term, editDistanceMax, j, acc)}

\* a term that is not combined with the one before it: taken as its best
\* suggestion, split, or kept unchanged
Parted(tops, term, suggestions, editDistanceMax, st) ==
    IF Len(suggestions) > 0 /\ (suggestions[1].distance = 0 \/ Len(term) = 1)
    THEN {[suggestionParts |-> Append(st.suggestionParts, suggestions[1]),
           lastCombi |-> FALSE, cmp |-> st.cmp]}
    ELSE IF Len(term) > 1
    THEN {[suggestionParts |->
               Append(st.suggestionParts,
                      IF acc.best # << >> THEN acc.best[1] ELSE Unknown(term, editDistanceMax)),
           lastCombi |-> FALSE, cmp |-> acc.cmp] :
          acc \in Split(tops, term, editDistanceMax, 1,
                        [best |-> IF Len(suggestions) > 0 THEN <<suggestions[1]>> ELSE << >>,
                         cmp |-> st.cmp])}
    ELSE {[suggestionParts |-> Append(st.suggestionParts, Unknown(term, editDistanceMax)),
           lastCombi |-> FALSE, cmp |-> st.cmp]}

\* a term after the first, the one before it not being a combination: it
\* replaces the last part together with it, or is taken on its own
Combi(tops, termList1, i, suggestions, editDistanceMax, st) ==
    UNION {
        LET c == Combined(st.suggestionParts, suggestions, suggestionsCombi,
                          termList1[i], editDistanceMax)
        IN  IF c # << >>
            THEN {[suggestionParts |->
                       [st.suggestionParts EXCEPT ![Len(st.suggestionParts)] = c[1]],
                   lastCombi |-> TRUE, cmp |-> st.cmp]}
            ELSE Parted(tops, termList1[i], suggestions, editDistanceMax, st) :
        suggestionsCombi \in tops[termList1[i - 1] \o termList1[i]]}

\* the body of for i := 0; i < len(termList1); i++ for the term at index i
Translated(tops, termList1, i, editDistanceMax, st) ==
    UNION {
        IF i > 1 /\ ~st.lastCombi
        THEN Combi(tops, termList1, i, suggestions, editDistanceMax, st)
        ELSE Parted(tops, termList1[i], suggestions, editDistanceMax, st) :
        suggestions \in tops[termList1[i]]}

\* the loop over the terms, from index i on
RECURSIVE TranslatedFrom(_, _, _, _, _)
TranslatedFrom(tops, termList1, i, editDistanceMax, st) ==
    IF i > Len(termList1) THEN {st}
    ELSE UNION {TranslatedFrom(tops, termList1, i + 1, editDistanceMax, next) :
                next \in Translated(tops, termList1, i, editDistanceMax, st)}

\* the parts, each followed by a space
RECURSIVE Joined(_, _)
Joined(suggestionParts, k) ==
    IF k > Len(suggestionParts) THEN << >>
    ELSE suggestionParts[k].term \o <<32>> \o Joined(suggestionParts, k + 1)

\* count := s.n; for ... { count *= float64(si.count) / s.n }
RECURSIVE Product(_, _, _)
Product(suggestionParts, k, count) ==
    IF k > Len(suggestionParts) THEN count
    ELSE Product(suggestionParts, k + 1,
                 Times(count, OverN(Float64(suggestionParts[k].count))))

\* unicode.IsSpace
IsSpace(r) == r \in {9, 10, 11, 12, 13, 32, 133, 160}

\* strings.TrimSpace
RECURSIVE TrimSpace(_)
TrimSpace(str) ==
    IF str = << >> THEN str
    ELSE IF IsSpace(str[1]) THEN TrimSpace(Tail(str))
    ELSE IF IsSpace(str[Len(str)]) THEN TrimSpace(SubSeq(str, 1, Len(str) - 1))
    ELSE str

\* math.MaxInt32
MaxInt32 == 2147483647

\* SymSpell.LookupCompound, for editDistanceMax <= s.maxDictionaryEditDistance:
\* the set of the lists the call can return
LookupCompound(s, input, editDistanceMax) ==
    {LET term == TrimSpace(Joined(st.suggestionParts, 1))
     IN  <<SuggestItem(term,
                       Compare(st.cmp, input, term, MaxInt32).res,
                       Int64Of(Product(st.suggestionParts, 1, FloatN)))>> :
     st \in TranslatedFrom(Tops(s, parseWords(input), editDistanceMax), parseWords(input), 1,
                           editDistanceMax,
                           [suggestionParts |-> << >>, lastCombi |-> FALSE,
                            cmp |-> NewDamerauOSA])}

\* ---------------------------------------------------------------- loading
\* bufio.Scanner with bufio.ScanLines on the text of the reader: the lines
\* scanner.Text() yields.  A line ends at '\n' and loses one trailing '\r';
\* the text after the last '\n' is a line unless it is empty.
RECURSIVE ScanLines(_)
ScanLines(text) ==
    LET dropCR(line) == IF line # << >> /\ line[Len(line)] = 13
                        THEN SubSeq(line, 1, Len(line) - 1) ELSE line
        ends == {i \in 1..Len(text) : text[i] = 10}
        end == CHOOSE i \in ends : \A j \in ends : i <= j
    IN  IF text = << >> THEN << >>
        ELSE IF ends = {} THEN <<dropCR(text)>>
        ELSE <<dropCR(SubSeq(text, 1, end - 1))>>
                 \o ScanLines(SubSeq(text, end + 1, Len(text)))

\* strings.Fields: the maximal runs of runes that are not white space
RECURSIVE Fields(_)
Fields(line) ==
    IF line = << >> THEN << >>
    ELSE IF IsSpace(line[1]) THEN Fields(Tail(line))
    ELSE LET n == CHOOSE k \in 1..Len(line) :
                      /\ \A i \in 1..k : ~IsSpace(line[i])
                      /\ (k = Len(line) \/ IsSpace(line[k + 1]))
         IN  <<SubSeq(line, 1, n)>> \o Fields(SubSeq(line, n + 1, Len(line)))

\* strings.Split(line, sep) for a separator that is not empty: the parts of
\* line between the occurrences of sep, the empty ones included
RECURSIVE SplitLine(_, _)
SplitLine(line, sep) ==
    LET at == {i \in 1..(Len(line) - Len(sep) + 1) :
                   SubSeq(line, i, i + Len(sep) - 1) = sep}
        first == CHOOSE i \in at : \A j \in at : i <= j
    IN  IF at = {} THEN <<line>>
        ELSE <<SubSeq(line, 1, first - 1)>>
                 \o SplitLine(SubSeq(line, first + Len(sep), Len(line)), sep)

\* strconv.ParseInt(str, 10, 64): an optional sign and decimal digits; err
\* for any other text.  The value is that of a text of at most nine digits,
\* which is what the readers of the runs hold.
ParseInt(str) ==
    LET signed == str # << >> /\ str[1] \in {43, 45}
        digits == IF signed THEN Tail(str) ELSE str
        value[i \in 0..Len(digits)] ==
            IF i = 0 THEN 0 ELSE value[i - 1] * 10 + (digits[i] - 48)
    IN  IF digits = << >> \/ \E i \in 1..Len(digits) : digits[i] \notin 48..57
        THEN [err |-> TRUE, val |-> I64(0)]
        ELSE [err |-> FALSE,
              val |-> I64(IF signed /\ str[1] = 45 THEN 0 - value[Len(digits)]
                          ELSE value[Len(digits)])]

\* The scanner loop of LoadDictionaryFromReader over lines: the (key, count)
\* pairs it gives to CreateDictionaryEntry, in turn.  A line of fewer than
\* two parts, or whose count part does not parse, is passed over.  termIndex
\* and countIndex are indices the parts of such a line have.
RECURSIVE EntriesOf(_, _, _, _)
EntriesOf(lines, termIndex, countIndex, separatorChars) ==
    IF lines = << >> THEN << >>
    ELSE LET line == Head(lines)
             lineParts == IF separatorChars = << >> THEN Fields(line)
                          ELSE SplitLine(line, separatorChars)
             rest == EntriesOf(Tail(lines), termIndex, countIndex, separatorChars)
         IN  IF Len(lineParts) >= 2
             THEN LET key == lineParts[termIndex + 1]
                      count == ParseInt(lineParts[countIndex + 1])
                  IN  IF ~count.err
                      THEN <<[key |-> key, count |-> count.val]>> \o rest
                      ELSE rest
             ELSE rest

\* the pairs the text of a reader gives
Entries(reader, termIndex, countIndex, separatorChars) ==
    EntriesOf(ScanLines(reader), termIndex, countIndex, separatorChars)

\* s.CreateDictionaryEntry(key, count, staging) for each entry in turn: the
\* set of the outcomes [s, staging]
RECURSIVE CreateAll(_, _, _)
CreateAll(s, staging, entries) ==
    IF entries = << >> THEN {[s |-> s, staging |-> staging]}
    ELSE UNION {CreateAll(o.s, o.staging, Tail(entries)) :
                    o \in CreateDictionaryEntry(s, Head(entries).key,
                                                Head(entries).count, staging)}

\* SymSpell.LoadDictionaryFromReader, reader being the text read: the entries
\* are staged in a stage of its own, NewSuggestionStage(16384), which it
\* commits at the end (s.deletes is never nil in an engine NewSymSpell
\* made).  The set of the outcomes [ret, err, s].
LoadDictionaryFromReader(s, reader, termIndex, countIndex, separatorChars) ==
    {[ret |-> TRUE, err |-> FALSE, s |-> CommitStaged(o.s, o.staging)] :
         o \in CreateAll(s, Ref(NewSuggestionStage),
                         Entries(reader, termIndex, countIndex, separatorChars))}

\* SymSpell.LoadDictionary: file is what os.Open(corpus) gives, Nil when it
\* fails and the text of the file otherwise
LoadDictionary(s, file, termIndex, countIndex, separatorChars) ==
    IF file = Nil THEN {[ret |-> FALSE, err |-> TRUE, s |-> s]}
    ELSE LoadDictionaryFromReader(s, file[1], termIndex, countIndex, separatorChars)

\* SuggestionStage.Clear: a new deletes map, and a node store of count 0
StageClear(ss) == [deletes |-> EmptyMap, nodes |-> << >>]

\* ------------------------------------------------------------------ state
VARIABLES
    maxDictionaryEditDistance,  \* SymSpell fields
    prefixLength,
    countThreshold,
    compactMask,
    maxDictionaryWordLength,
    deletes,
    words,
    belowThresholdWords,
    staging,                    \* the caller's SuggestionStage, Nil when it has none
    comparer,                   \* the caller's DamerauOSA
    calls,                      \* number of calls made in the runs that bound it
    call,                       \* the last call made, its arguments and what it returned
    inserted,                   \* history: per key, the exact sum of the counts inserted
    twin                        \* a second engine given the same calls, Nil when there is none

vars == <<maxDictionaryEditDistance, prefixLength, countThreshold, compactMask,
          maxDictionaryWordLength, deletes, words, belowThresholdWords, staging,
          comparer, calls, call, inserted, twin>>

config == <<maxDictionaryEditDistance, prefixLength, countThreshold, compactMask>>

index == <<maxDictionaryWordLength, deletes, words, belowThresholdWords>>

\* the engine as the record the operators take
Self ==
    [maxDictionaryEditDistance |-> maxDictionaryEditDistance,
     prefixLength |-> prefixLength,
     countThreshold |-> countThreshold,
     compactMask |-> compactMask,
     maxDictionaryWordLength |-> maxDictionaryWordLength,
     deletes |-> deletes,
     words |-> words,
     belowThresholdWords |-> belowThresholdWords]

\* the (maxDictionaryEditDistance, prefixLength) pairs the engines are built with
Shapes == {<<1, 2>>, <<1, 3>>, <<2, 3>>, <<2, 4>>}

\* the countThreshold values the engines are built with
Thresholds == {1, 2}

\* NewSymSpell(initialCapacity, maxDictionaryEditDistance, prefixLength,
\* countThreshold, compactLevel) with arguments it accepts: the fields of
\* the engine it returns
NewSymSpell(maxDictionaryEditDistance0, prefixLength0, countThreshold0, compactLevel) ==
    /\ maxDictionaryEditDistance = maxDictionaryEditDistance0
    /\ prefixLength = prefixLength0
    /\ countThreshold = countThreshold0
    /\ compactMask = CompactMask(compactLevel)
    /\ maxDictionaryWordLength = 0
    /\ deletes = EmptyMap
    /\ words = EmptyMap
    /\ belowThresholdWords = EmptyMap
    /\ inserted = EmptyMap

Init ==
    /\ \E shape \in Shapes, threshold \in Thresholds :
           NewSymSpell(shape[1], shape[2], I64(threshold), defaultCompactLevel)
    /\ staging = Nil
    /\ comparer = NewDamerauOSA
    /\ twin = Nil
    /\ calls = 0
    /\ call = [op |-> "NewSymSpell"]

\* the bound on the dictionary: at most MaxWords terms, no count above MaxTotal
Room(key, count) ==
    LET held == DOMAIN words \cup DOMAIN belowThresholdWords
        prior == IF key \in DOMAIN words THEN words[key].off
                 ELSE IF key \in DOMAIN belowThresholdWords
                 THEN belowThresholdWords[key].off ELSE 0
    IN  /\ (key \in held \/ Cardinality(held) < MaxWords)
        /\ prior + count <= MaxTotal

\* The exact sum of counts: tops * MaxInt64 + off.
NoTotal == [tops |-> 0, off |-> 0]

TotalPlus(t, count) ==
    IF count.top THEN [tops |-> t.tops + 1, off |-> t.off - count.off]
    ELSE [tops |-> t.tops, off |-> t.off + count.off]

\* if count <= 0 { if s.countThreshold > 0 { return false } ... }: the call
\* inserts nothing
Rejected(count, threshold) == I64Less(count, I64(1)) /\ I64Less(I64(0), threshold)

\* if count <= 0 { ...; count = 0 }: the count a call that is not rejected inserts
Clamped(count) == IF I64Less(count, I64(1)) THEN I64(0) ELSE count

\* the history after a call
Recorded(key, count) ==
    IF Rejected(count, countThreshold) THEN inserted
    ELSE Put(inserted, key,
             TotalPlus(IF key \in DOMAIN inserted THEN inserted[key] ELSE NoTotal,
                       Clamped(count)))

\* the history after the calls CreateDictionaryEntry(key, count, _)
\* of entries
RECURSIVE RecordedAll(_, _)
RecordedAll(history, entries) ==
    IF entries = << >> THEN history
    ELSE LET key == Head(entries).key
             count == Head(entries).count
         IN  RecordedAll(IF Rejected(count, countThreshold) THEN history
                         ELSE Put(history, key,
                                  TotalPlus(IF key \in DOMAIN history THEN history[key]
                                            ELSE NoTotal, Clamped(count))),
                         Tail(entries))

\* s.CreateDictionaryEntry(key, count, stage), stage the caller's stage or nil
\* and count an int64
CreatedOf(key, count, stage) ==
    \E o \in CreateDictionaryEntry(Self, key, count, stage) :
        /\ words' = o.s.words
        /\ belowThresholdWords' = o.s.belowThresholdWords
        /\ deletes' = o.s.deletes
        /\ maxDictionaryWordLength' = o.s.maxDictionaryWordLength
        /\ staging' = IF stage = Nil THEN staging ELSE o.staging
        /\ call' = [op |-> "CreateDictionaryEntry", key |-> key, count |-> count,
                    staged |-> stage # Nil, ret |-> o.ret]
        /\ inserted' = Recorded(key, count)
        /\ UNCHANGED <<config, comparer, twin>>

\* s.CreateDictionaryEntry(key, count, stage) for a small count
Created(key, count, stage) == CreatedOf(key, I64(count), stage) /\ UNCHANGED calls

\* A Lookup leaves the engine as it was, so the calls after it reach no
\* engine state and no result that a run ending in its first Lookup does
\* not reach: a run is a build followed by one Lookup.
Building == call.op # "Lookup"

\* s.CreateDictionaryEntry(key, count, nil)
CallCreateDictionaryEntry ==
    /\ Building
    /\ \E key \in AllStr, count \in 1..MaxCount :
        /\ Room(key, count)
        /\ Created(key, count, Nil)

\* the bound of Room on the dictionary of the engine s
Within(s) ==
    /\ Cardinality(DOMAIN s.words \cup DOMAIN s.belowThresholdWords) <= MaxWords
    /\ \A t \in DOMAIN s.words : ~s.words[t].top /\ s.words[t].off <= MaxTotal
    /\ \A t \in DOMAIN s.belowThresholdWords :
           ~s.belowThresholdWords[t].top /\ s.belowThresholdWords[t].off <= MaxTotal

\* the engine after a load that had one of outcomes; made is the function
\* called, and entries the (key, count) pairs it gave to CreateDictionaryEntry
Loaded(outcomes, made, entries) ==
    \E o \in outcomes :
        /\ Within(o.s)
        /\ words' = o.s.words
        /\ belowThresholdWords' = o.s.belowThresholdWords
        /\ deletes' = o.s.deletes
        /\ maxDictionaryWordLength' = o.s.maxDictionaryWordLength
        /\ inserted' = RecordedAll(inserted, entries)
        /\ call' = [op |-> made, ret |-> o.ret, err |-> o.err]
        /\ UNCHANGED <<config, staging, comparer, calls, twin>>

\* the keys of the lines that are loaded
LoadKeys == StrUpTo(MaxKeyLen) \ {<< >>}

\* the texts read in the runs: one line "key count\n", count a digit
Readers == {key \o <<32, 48 + count, 10>> : key \in LoadKeys, count \in 1..MaxCount}

\* s.LoadDictionaryFromReader(reader, 0, 1, "")
CallLoadDictionaryFromReader ==
    /\ Building
    /\ \E reader \in Readers :
           Loaded(LoadDictionaryFromReader(Self, reader, 0, 1, << >>),
                  "LoadDictionaryFromReader", Entries(reader, 0, 1, << >>))

\* s.Lookup(input, verbosity, maxEditDistance, includeUnknown); the lists
\* reaching end are computed once for the two values of includeUnknown
CallLookup ==
    /\ Building
    /\ \E input \in AllStr, verbosity \in {Top, Closest, All},
          maxEditDistance \in 0..maxDictionaryEditDistance :
        \E suggestions \in Suggestions(Self, input, verbosity, maxEditDistance),
           includeUnknown \in BOOLEAN :
          LET ret == Ended(suggestions, input, maxEditDistance, includeUnknown)
          IN
            /\ call' = [op |-> "Lookup", input |-> input, verbosity |-> verbosity,
                        maxEditDistance |-> maxEditDistance,
                        includeUnknown |-> includeUnknown, ret |-> ret]
            /\ UNCHANGED <<config, index, staging, comparer, calls, inserted, twin>>

Next == CallCreateDictionaryEntry \/ CallLoadDictionaryFromReader \/ CallLookup

Spec == Init /\ [][Next]_vars

\* ------------------------------------------------------- staged builds
\* the engines of the staged runs: maxDictionaryEditDistance 1, prefixLength 2
InitStage ==
    /\ \E threshold \in Thresholds : NewSymSpell(1, 2, I64(threshold), defaultCompactLevel)
    /\ staging = Ref(NewSuggestionStage)
    /\ comparer = NewDamerauOSA
    /\ twin = Nil
    /\ calls = 0
    /\ call = [op |-> "NewSymSpell"]

\* the keys of the staged runs
StageKeys == {<< >>, <<97>>, <<97, 98>>, <<98, 97>>}

\* s.CreateDictionaryEntry(key, count, stage), stage the caller's stage or nil
CallCreateStaged ==
    \E key \in StageKeys, count \in 1..MaxCount, stage \in {Nil, staging} :
        /\ Building
        /\ Room(key, count)
        /\ Created(key, count, stage)

\* s.CommitStaged(staging)
CallCommitStaged ==
    /\ Building
    /\ deletes' = CommitStaged(Self, staging).deletes
    /\ call' = [op |-> "CommitStaged"]
    /\ UNCHANGED <<config, maxDictionaryWordLength, words, belowThresholdWords, staging,
                   comparer, calls, inserted, twin>>

\* The files of the staged runs, each with the termIndex, the countIndex and
\* the separatorChars it is loaded with: <<file, termIndex, countIndex,
\* separatorChars>>, file the text of the file, or Nil for a file that
\* os.Open cannot open.
Corpora ==
    {<<Nil, 0, 1, << >>>>}
    \cup {<<Ref(<<97, 98, 32, 49, 10>>), 0, 1, << >>>>,
          <<Ref(<<50, 44, 97, 98>>), 1, 0, <<44>>>>,
          <<Ref(<<97, 32, 49, 13, 10, 9, 98, 32, 32, 49, 10>>), 0, 1, << >>>>,
          <<Ref(<<97, 10, 10, 98, 32, 120, 10, 98, 44, 49, 10, 98, 32, 45, 49>>), 0, 1, << >>>>,
          <<Ref(<<97, 98, 32, 49, 10>>), 1, 0, << >>>>,
          <<Ref(<<97, 44, 44, 49, 10>>), 0, 2, <<44>>>>}

\* s.LoadDictionary(corpus, termIndex, countIndex, separatorChars)
CallLoadDictionary ==
    /\ Building
    /\ \E corpus \in Corpora :
           Loaded(LoadDictionary(Self, corpus[1], corpus[2], corpus[3], corpus[4]),
                  "LoadDictionary",
                  IF corpus[1] = Nil THEN << >>
                  ELSE Entries(corpus[1][1], corpus[2], corpus[3], corpus[4]))

\* the hashes and the suggestions given to staging.Add: 7 and "zz"
AddHashes == {7}

AddSuggestions == {<<122, 122>>}

\* staging.Add(deleteHash, suggestion) on the caller's stage
CallStageAdd ==
    /\ Building
    /\ Len(staging[1].nodes) < MaxNodes
    /\ \E deleteHash \in AddHashes, suggestion \in AddSuggestions :
        /\ staging' = Ref(StageAdd(staging[1], deleteHash, suggestion))
        /\ call' = [op |-> "Add", deleteHash |-> deleteHash, suggestion |-> suggestion]
    /\ UNCHANGED <<config, index, comparer, calls, inserted, twin>>

\* staging.Clear() on the caller's stage
CallStageClear ==
    /\ Building
    /\ staging' = Ref(StageClear(staging[1]))
    /\ call' = [op |-> "Clear"]
    /\ UNCHANGED <<config, index, comparer, calls, inserted, twin>>

NextStage ==
    \/ CallCreateStaged
    \/ CallLoadDictionaryFromReader
    \/ CallLoadDictionary
    \/ CallStageAdd
    \/ CallStageClear
    \/ CallCommitStaged

SpecStage == InitStage /\ [][NextStage]_vars

\* ---------------------------------------------------- construction runs
\* return symSpell, nil
NoError == "nil"

\* the argument checks of NewSymSpell: the error it returns, or NoError
NewSymSpellError(initialCapacity, maxDictionaryEditDistance0, prefixLength0, countThreshold0, compactLevel) ==
    IF initialCapacity < 0 THEN "initialCapacity must be >= 0"
    ELSE IF maxDictionaryEditDistance0 < 0 THEN "maxDictionaryEditDistance must be >= 0"
    ELSE IF prefixLength0 < 1 \/ prefixLength0 <= maxDictionaryEditDistance0
    THEN "prefixLength must be > 1 and > maxDictionaryEditDistance"
    ELSE IF I64Less(countThreshold0, I64(0)) THEN "countThreshold must be >= 0"
    ELSE IF compactLevel > 16 THEN "compactLevel must be <= 16"
    ELSE NoError

\* the arguments given to NewSymSpell in the construction runs
Capacities == {-1, 0, 16}

EditDistances == {-1, 0, 1, 2}

PrefixLengths == {-1, 0, 1, 2, 3}

NewThresholds == {I64(-1), I64(0), I64(1)}

CompactLevels == {0, 5, 16, 17, 255}

\* no engine yet: the caller holds the arguments it is about to pass
InitNew ==
    /\ maxDictionaryEditDistance = Nil
    /\ prefixLength = Nil
    /\ countThreshold = Nil
    /\ compactMask = Nil
    /\ maxDictionaryWordLength = Nil
    /\ deletes = Nil
    /\ words = Nil
    /\ belowThresholdWords = Nil
    /\ inserted = EmptyMap
    /\ staging = Nil
    /\ comparer = NewDamerauOSA
    /\ twin = Nil
    /\ calls = 0
    /\ \E initialCapacity \in Capacities, maxDictionaryEditDistance0 \in EditDistances,
          prefixLength0 \in PrefixLengths, countThreshold0 \in NewThresholds,
          compactLevel \in CompactLevels :
           call = [op |-> "arguments", initialCapacity |-> initialCapacity,
                   maxDictionaryEditDistance |-> maxDictionaryEditDistance0,
                   prefixLength |-> prefixLength0, countThreshold |-> countThreshold0,
                   compactLevel |-> compactLevel]

\* NewSymSpell(initialCapacity, maxDictionaryEditDistance, prefixLength,
\* countThreshold, compactLevel): the error it returns and whether it returns
\* an engine, whose fields are then set
CallNewSymSpell ==
    /\ call.op = "arguments"
    /\ LET err == NewSymSpellError(call.initialCapacity, call.maxDictionaryEditDistance,
                                   call.prefixLength, call.countThreshold,
                                   call.compactLevel)
       IN  /\ call' = [call EXCEPT !.op = "NewSymSpell"]
                       @@ [err |-> err, engine |-> err = NoError]
           /\ IF err = NoError
              THEN /\ maxDictionaryEditDistance' = call.maxDictionaryEditDistance
                   /\ prefixLength' = call.prefixLength
                   /\ countThreshold' = call.countThreshold
                   /\ compactMask' = CompactMask(call.compactLevel)
                   /\ maxDictionaryWordLength' = 0
                   /\ deletes' = EmptyMap
                   /\ words' = EmptyMap
                   /\ belowThresholdWords' = EmptyMap
              ELSE UNCHANGED <<config, index>>
    /\ UNCHANGED <<staging, comparer, calls, inserted, twin>>

NextNew == CallNewSymSpell

SpecNew == InitNew /\ [][NextNew]_vars

\* ----------------------------------------------------- delete-set runs
\* the (maxDictionaryEditDistance, prefixLength) pairs of the delete-set
\* runs, all of them accepted by NewSymSpell
EditShapes == {<<0, 1>>, <<0, 2>>, <<0, 3>>, <<1, 2>>, <<1, 3>>, <<2, 3>>, <<2, 4>>, <<3, 4>>}

EditKeys == StrUpTo(MaxEditKeyLen)

\* an engine, and the key its caller is about to pass
InitEdits ==
    /\ \E shape \in EditShapes : NewSymSpell(shape[1], shape[2], I64(1), defaultCompactLevel)
    /\ staging = Nil
    /\ comparer = NewDamerauOSA
    /\ twin = Nil
    /\ calls = 0
    /\ \E key \in EditKeys : call = [op |-> "key", key |-> key]

\* s.EditsPrefix(key)
CallEditsPrefix ==
    /\ call.op = "key"
    /\ call' = [op |-> "EditsPrefix", key |-> call.key, ret |-> EditsPrefix(Self, call.key)]
    /\ UNCHANGED <<config, index, staging, comparer, calls, inserted, twin>>

NextEdits == CallEditsPrefix

SpecEdits == InitEdits /\ [][NextEdits]_vars

\* ------------------------------------------------------- counting runs
\* the counts given to CreateDictionaryEntry: -1, 0, 1, 2, MaxInt64 - 1, MaxInt64
Counts == {I64(-1), I64(0), I64(1), I64(2), [top |-> TRUE, off |-> 1], MaxInt64}

\* the countThreshold values of the counting runs: 0, 1, 2, MaxInt64
CountThresholds == {I64(0), I64(1), I64(2), MaxInt64}

CountKeys == StrUpTo(MaxKeyLen)

\* an engine of maxDictionaryEditDistance 1 and prefixLength 2, whose caller
\* has a stage or has none
InitCounts ==
    /\ \E threshold \in CountThresholds : NewSymSpell(1, 2, threshold, defaultCompactLevel)
    /\ staging \in {Nil, Ref(NewSuggestionStage)}
    /\ comparer = NewDamerauOSA
    /\ twin = Nil
    /\ calls = 0
    /\ call = [op |-> "NewSymSpell"]

\* s.CreateDictionaryEntry(key, count, stage), stage the caller's stage or nil
CallCreateCounted ==
    /\ calls < MaxInserts
    /\ \E key \in CountKeys, count \in Counts, stage \in {Nil, staging} :
        /\ key \in DOMAIN inserted \/ Cardinality(DOMAIN inserted) < MaxWords
        /\ CreatedOf(key, count, stage)
        /\ calls' = calls + 1

NextCounts == CallCreateCounted

SpecCounts == InitCounts /\ [][NextCounts]_vars

\* ------------------------------------------------------- comparer runs
\* d.Distance(string1, string2, maxDistance) on the caller's comparer
CallDistance ==
    \E string1 \in AllStr, string2 \in AllStr, maxDistance \in 0..MaxDist :
        LET o == Distance(comparer, string1, string2, maxDistance)
        IN  /\ calls < MaxCalls
            /\ comparer' = o.cmp
            /\ calls' = calls + 1
            /\ call' = [op |-> "Distance", string1 |-> string1, string2 |-> string2,
                        maxDistance |-> maxDistance, ret |-> o.res]
            /\ UNCHANGED <<config, index, staging, inserted, twin>>

InitDistance ==
    /\ NewSymSpell(1, 2, I64(1), defaultCompactLevel)
    /\ staging = Nil
    /\ comparer = NewDamerauOSA
    /\ twin = Nil
    /\ calls = 0
    /\ call = [op |-> "NewDamerauOSA"]

NextDistance == CallDistance

SpecDistance == InitDistance /\ [][NextDistance]_vars

\* ----------------------------------------------------- two-engine runs
\* the compactLevel of the second engine, the first having defaultCompactLevel
TwinLevels == {0, 16}

\* the (maxDictionaryEditDistance, prefixLength) pairs of the two-engine runs
TwinShapes == {<<1, 3>>, <<1, 4>>, <<2, 4>>}

\* the terms and inputs of the two-engine runs: "aaa", "ntn", "aaab", "ntnx"
TwinKeys == {<<97, 97, 97>>, <<110, 116, 110>>, <<97, 97, 97, 98>>, <<110, 116, 110, 120>>}

\* two engines built with the same arguments but for compactLevel
InitTwin ==
    /\ \E shape \in TwinShapes : NewSymSpell(shape[1], shape[2], I64(1), defaultCompactLevel)
    /\ \E compactLevel \in TwinLevels :
           twin = [Self EXCEPT !.compactMask = CompactMask(compactLevel)]
    /\ staging = Nil
    /\ comparer = NewDamerauOSA
    /\ calls = 0
    /\ call = [op |-> "NewSymSpell"]

\* CreateDictionaryEntry(key, count, nil) on the first engine and on the second
CallCreateBoth ==
    /\ Building
    /\ \E key \in TwinKeys, count \in 1..MaxCount :
        /\ Room(key, count)
        /\ \E o \in CreateDictionaryEntry(Self, key, I64(count), Nil),
              t \in CreateDictionaryEntry(twin, key, I64(count), Nil) :
            /\ words' = o.s.words
            /\ belowThresholdWords' = o.s.belowThresholdWords
            /\ deletes' = o.s.deletes
            /\ maxDictionaryWordLength' = o.s.maxDictionaryWordLength
            /\ twin' = t.s
            /\ call' = [op |-> "CreateDictionaryEntry", key |-> key, count |-> I64(count),
                        staged |-> FALSE, ret |-> o.ret, twinRet |-> t.ret]
            /\ inserted' = Recorded(key, I64(count))
            /\ UNCHANGED <<config, staging, comparer, calls>>

\* Lookup(input, verbosity, maxEditDistance, includeUnknown) on the first engine
\* and on the second: the lists each of them can return
CallLookupBoth ==
    /\ Building
    /\ \E input \in TwinKeys, verbosity \in {Top, Closest, All},
          maxEditDistance \in 0..maxDictionaryEditDistance, includeUnknown \in BOOLEAN :
        /\ call' = [op |-> "Lookup", input |-> input, verbosity |-> verbosity,
                    maxEditDistance |-> maxEditDistance, includeUnknown |-> includeUnknown,
                    lists |-> Lookup(Self, input, verbosity, maxEditDistance, includeUnknown),
                    twinLists |-> Lookup(twin, input, verbosity, maxEditDistance,
                                         includeUnknown)]
        /\ UNCHANGED <<config, index, staging, comparer, calls, inserted, twin>>

NextTwin == CallCreateBoth \/ CallLookupBoth

SpecTwin == InitTwin /\ [][NextTwin]_vars

\* ------------------------------------------------------- compound runs
\* the terms of the compound runs: the strings of a and ] of up to 3 runes
\* that are not empty
CompoundKeys ==
    {<<97>>, <<93>>, <<97, 93>>, <<93, 97>>, <<97, 97>>,
     <<97, 93, 93>>, <<93, 93, 97>>, <<97, 97, 93>>, <<93, 97, 97>>}

\* the runes of the inputs of the compound runs: A, a and ]
CompoundRunes == {65, 97, 93}

\* the inputs of the compound runs
RECURSIVE CompoundInputs(_)
CompoundInputs(len) ==
    IF len = 0 THEN {<< >>}
    ELSE LET shorter == CompoundInputs(len - 1)
         IN  shorter \cup {Append(text, r) : text \in {t \in shorter : Len(t) = len - 1},
                                            r \in CompoundRunes}

\* the (maxDictionaryEditDistance, prefixLength) pairs of the compound runs
CompoundShapes == {<<1, 2>>, <<2, 4>>}

InitCompound ==
    /\ \E shape \in CompoundShapes :
           NewSymSpell(shape[1], shape[2], I64(1), defaultCompactLevel)
    /\ staging = Nil
    /\ comparer = NewDamerauOSA
    /\ twin = Nil
    /\ calls = 0
    /\ call = [op |-> "NewSymSpell"]

\* s.CreateDictionaryEntry(key, count, nil) with a term of the compound runs
CallCreateCompoundEntry ==
    /\ call.op # "LookupCompound"
    /\ \E key \in CompoundKeys, count \in 1..MaxCount :
        /\ Room(key, count)
        /\ Created(key, count, Nil)

\* s.LookupCompound(input, editDistanceMax)
CallLookupCompound ==
    /\ call.op # "LookupCompound"
    /\ \E input \in CompoundInputs(MaxInputLen),
          editDistanceMax \in 0..maxDictionaryEditDistance :
        \E ret \in LookupCompound(Self, input, editDistanceMax) :
            /\ call' = [op |-> "LookupCompound", input |-> input,
                        editDistanceMax |-> editDistanceMax, ret |-> ret]
            /\ UNCHANGED <<config, index, staging, comparer, calls, inserted, twin>>

NextCompound == CallCreateCompoundEntry \/ CallLookupCompound

SpecCompound == InitCompound /\ [][NextCompound]_vars

\* ------------------------------------------------------------ properties
\* the last call was a Lookup that returned call.ret
Looked == call.op = "Lookup"

\* the items and the terms of a returned list
Items(ret) == {ret[i] : i \in 1..Len(ret)}

Terms(ret) == {ret[i].term : i \in 1..Len(ret)}

\* the dictionary terms within maxEditDistance of the input
Near(input, maxEditDistance) ==
    {t \in DOMAIN words : TrueDistance(input, t) <= maxEditDistance}

\* the terms of S closest to the input
Nearest(S, input) ==
    {t \in S : \A u \in S : TrueDistance(input, t) <= TrueDistance(input, u)}

\* the hash of str in this engine
HashOf(str) == GetStringHash(str, compactMask)

\* t is filed under the delete string d
Filed(t, d) == HashOf(d) \in DOMAIN deletes /\ t \in deletes[HashOf(d)]

\* C1: once the stage is committed, every term of words is filed in deletes
\* under the hash of each of its EditsPrefix strings.
C1_CommittedTermsAreFiled ==
    call.op = "CommitStaged" =>
        \A t \in DOMAIN words : \A d \in EditsPrefix(Self, t) : Filed(t, d)

\* C2: every item Lookup returns (includeUnknown = false) carries the true
\* Damerau-OSA distance between the input and its term, and that distance is
\* at most maxEditDistance.
C2_ReturnedDistanceIsTrue ==
    (Looked /\ ~call.includeUnknown) =>
        \A it \in Items(call.ret) :
            /\ it.distance = TrueDistance(call.input, it.term)
            /\ it.distance <= call.maxEditDistance

\* C3: Lookup with verbosity All returns every dictionary term within
\* maxEditDistance of the input, each exactly once.
C3_AllReturnsEveryNearTerm ==
    (Looked /\ call.verbosity = All) =>
        \A t \in Near(call.input, call.maxEditDistance) :
            Cardinality({i \in 1..Len(call.ret) : call.ret[i].term = t}) = 1

\* C4: Lookup with verbosity Top returns at most one item, and the item it
\* returns is a term at the smallest distance among the dictionary terms
\* within maxEditDistance, with the highest count among the terms at that
\* distance.
C4_TopIsNearestMostFrequent ==
    (Looked /\ call.verbosity = Top /\ ~call.includeUnknown) =>
        /\ Len(call.ret) <= 1
        /\ Len(call.ret) = 1 =>
               LET best == Nearest(Near(call.input, call.maxEditDistance), call.input)
                   t == call.ret[1].term
               IN  /\ t \in best
                   /\ \A u \in best : ~I64Less(words[t], words[u])

\* C5: Lookup with verbosity Closest returns all and only the dictionary
\* terms at the smallest distance found within maxEditDistance, each item
\* carrying that distance.
C5_ClosestIsTheNearestTier ==
    (Looked /\ call.verbosity = Closest /\ ~call.includeUnknown) =>
        LET best == Nearest(Near(call.input, call.maxEditDistance), call.input)
        IN  /\ Terms(call.ret) = best
            /\ \A it \in Items(call.ret) : it.distance = TrueDistance(call.input, it.term)

\* C6: the list Lookup returns is sorted by distance ascending and, within
\* equal distance, by count descending, and no term occurs in it twice.
C6_ResultSortedNoDuplicates ==
    Looked =>
        /\ \A i \in 1..(Len(call.ret) - 1) :
               \/ call.ret[i].distance < call.ret[i + 1].distance
               \/ /\ call.ret[i].distance = call.ret[i + 1].distance
                  /\ ~I64Less(call.ret[i].count, call.ret[i + 1].count)
        /\ \A i, j \in 1..Len(call.ret) : call.ret[i].term = call.ret[j].term => i = j

\* a Lookup returned two items of equal distance and different counts
C6_Witness ==
    /\ Looked
    /\ Len(call.ret) = 2
    /\ call.ret[1].distance = call.ret[2].distance
    /\ I64Less(call.ret[2].count, call.ret[1].count)

\* C7: for a term of words and any maxEditDistance, Lookup with Top returns
\* exactly one item: the term itself, at distance 0, with the count of words.
C7_ExactMatchIsTop ==
    (Looked /\ call.verbosity = Top /\ ~call.includeUnknown /\ call.input \in DOMAIN words) =>
        call.ret = <<SuggestItem(call.input, 0, words[call.input])>>

\* a Top Lookup of a dictionary term, with maxEditDistance > 0 and another
\* dictionary term within that distance
C7_Witness ==
    /\ Looked
    /\ call.verbosity = Top
    /\ ~call.includeUnknown
    /\ call.input \in DOMAIN words
    /\ call.maxEditDistance > 0
    /\ Near(call.input, call.maxEditDistance) # {call.input}
    /\ Len(call.ret) = 1

\* C8: with maxEditDistance 0 Lookup returns nothing for an input that is
\* not a dictionary term, also when the input is a delete string of one.
C8_NoMatchAtDistanceZero ==
    (Looked /\ call.maxEditDistance = 0 /\ ~call.includeUnknown
        /\ call.input \notin DOMAIN words) =>
        call.ret = << >>

\* such a Lookup of a delete string of a dictionary term
C8_Witness ==
    /\ Looked
    /\ call.maxEditDistance = 0
    /\ ~call.includeUnknown
    /\ call.input \notin DOMAIN words
    /\ \E t \in DOMAIN words : call.input \in EditsPrefix(Self, t) /\ Filed(t, call.input)
    /\ call.ret = << >>

\* the count inserted for a term so far
Accumulated(t) ==
    IF t \in DOMAIN words THEN words[t]
    ELSE IF t \in DOMAIN belowThresholdWords THEN belowThresholdWords[t]
    ELSE I64(0)

\* t was inserted, with a total count below the threshold
LowCount(t) ==
    /\ t \in DOMAIN words \cup DOMAIN belowThresholdWords
    /\ I64Less(Accumulated(t), countThreshold)

\* C9 as claimed: with countThreshold > 1 a term inserted with a total count
\* below the threshold is the term of no item any Lookup returns.
C9_LowCountNeverReturned ==
    (Looked /\ I64Less(I64(1), countThreshold)) =>
        \A it \in Items(call.ret) : ~LowCount(it.term)

\* C9 as amended: with countThreshold > 1 such a term is returned only as the
\* item Lookup makes up for an unknown input (includeUnknown = true, the
\* input itself at distance maxEditDistance + 1 with count 0).
C9_LowCountOnlyAsUnknown ==
    (Looked /\ I64Less(I64(1), countThreshold)) =>
        \A it \in Items(call.ret) :
            LowCount(it.term) =>
                /\ call.includeUnknown
                /\ call.ret = <<SuggestItem(call.input, call.maxEditDistance + 1, I64(0))>>

\* a Lookup (includeUnknown = false) of a low-count term that is a delete
\* string of a dictionary term, which returned that dictionary term
C9_Witness ==
    /\ Looked
    /\ I64Less(I64(1), countThreshold)
    /\ ~call.includeUnknown
    /\ LowCount(call.input)
    /\ \E t \in DOMAIN words : Filed(t, call.input) /\ t \in Terms(call.ret)

\* C10: Distance returns -1 exactly when the Damerau-OSA distance of the two
\* strings exceeds maxDistance, and that distance otherwise.
C10_DistanceIsOSAOrMinusOne ==
    call.op = "Distance" =>
        LET d == TrueDistance(call.string1, call.string2)
        IN  call.ret = IF d > call.maxDistance THEN -1 ELSE d

\* the last call was a CreateDictionaryEntry
Inserting == call.op = "CreateDictionaryEntry"

\* t is filed under the delete string d in the map del
FiledIn(del, t, d) == HashOf(d) \in DOMAIN del /\ t \in del[HashOf(d)]

\* the suggestions of the stage ss on the list that starts at node n
RECURSIVE Chain(_, _)
Chain(ss, n) ==
    IF n < 0 THEN {}
    ELSE {ss.nodes[n + 1].suggestion} \cup Chain(ss, ss.nodes[n + 1].next)

\* t is staged in ss under the delete string d
StagedIn(ss, t, d) ==
    HashOf(d) \in DOMAIN ss.deletes /\ t \in Chain(ss, ss.deletes[HashOf(d)].first)

\* C11: a CreateDictionaryEntry call returns true exactly when it made key a
\* term of words (new or promoted) and put key under the hash of every
\* string of EditsPrefix(key) in deletes, or in the stage it was given; a
\* call that returns false leaves deletes and the stage as they were.
C11_TrueIffInsertedAndIndexed ==
    [][LET key == call'.key
           becameWord == key \notin DOMAIN words /\ key \in DOMAIN words'
           indexed ==
               \A d \in EditsPrefix(Self, key) :
                   IF call'.staged THEN StagedIn(staging'[1], key, d)
                   ELSE FiledIn(deletes', key, d)
       IN  call'.op = "CreateDictionaryEntry" =>
               /\ call'.ret <=> (becameWord /\ indexed)
               /\ ~call'.ret => (deletes' = deletes /\ staging' = staging)]_vars

\* a call with no stage promoted its key from belowThresholdWords, filed it
\* and returned true
C11_Witness ==
    /\ Inserting
    /\ call.ret
    /\ ~call.staged
    /\ countThreshold = I64(2)
    /\ call.count = I64(1)
    /\ call.key \in DOMAIN words
    /\ words[call.key] = I64(2)
    /\ \A d \in EditsPrefix(Self, call.key) : FiledIn(deletes, call.key, d)

\* C12: no term is a key of both words and belowThresholdWords, and every
\* term some call inserted (was not rejected for) is a key of exactly one
\* of them; a promoted term has left belowThresholdWords when the call ends.
C12_OneMapPerTerm ==
    /\ DOMAIN words \cap DOMAIN belowThresholdWords = {}
    /\ DOMAIN words \cup DOMAIN belowThresholdWords = DOMAIN inserted

\* a call promoted its key to words while another term stays below the
\* threshold
C12_Witness ==
    /\ Inserting
    /\ call.ret
    /\ I64Less(I64(1), countThreshold)
    /\ call.key \in DOMAIN words
    /\ I64Less(call.count, countThreshold)
    /\ call.key \notin DOMAIN belowThresholdWords
    /\ DOMAIN belowThresholdWords # {}

\* C13 as claimed: every count stored in words is >= countThreshold, and is
\* >= 1 when countThreshold = 0.
C13_WordCountsAtLeastOne ==
    \A t \in DOMAIN words :
        /\ ~I64Less(words[t], countThreshold)
        /\ countThreshold = I64(0) => ~I64Less(words[t], I64(1))

\* C13 as amended: every count stored in words is >= countThreshold and
\* >= 0; a count of 0 is stored only when countThreshold = 0, for a term
\* that only calls with count <= 0 inserted.
C13_WordCountsAtLeastThreshold ==
    \A t \in DOMAIN words :
        /\ ~I64Less(words[t], countThreshold)
        /\ ~I64Less(words[t], I64(0))
        /\ words[t] = I64(0) => (countThreshold = I64(0) /\ inserted[t] = NoTotal)

\* with countThreshold = 0 a call with a negative count made its key a
\* word of count 0
C13_Witness ==
    /\ Inserting
    /\ countThreshold = I64(0)
    /\ call.count = I64(-1)
    /\ call.ret
    /\ call.key \in DOMAIN words
    /\ words[call.key] = I64(0)

\* min(MaxInt64, t) for an exact sum t of counts >= 0
Capped(t) ==
    IF t.tops = 0 THEN I64(t.off)
    ELSE IF t.tops = 1 /\ t.off < 0 THEN [top |-> TRUE, off |-> -t.off]
    ELSE MaxInt64

\* C14: for every key, the count stored in words or belowThresholdWords is
\* min(MaxInt64, sum of the counts inserted for the key), a count <= 0 that
\* is not rejected being inserted as 0: the addition saturates, never wraps.
C14_StoredCountIsSaturatedSum ==
    \A t \in DOMAIN inserted : Accumulated(t) = Capped(inserted[t])

\* the counts inserted for the key of the last call add up to more than
\* MaxInt64 and MaxInt64 is stored
C14_Witness ==
    /\ Inserting
    /\ call.key \in DOMAIN inserted
    /\ inserted[call.key].tops >= 1
    /\ (inserted[call.key].tops >= 2 \/ inserted[call.key].off > 0)
    /\ Accumulated(call.key) = MaxInt64

\* C15: NewSymSpell returns an error and no engine when initialCapacity < 0,
\* maxDictionaryEditDistance < 0, prefixLength <= max(1,
\* maxDictionaryEditDistance), countThreshold < 0 or compactLevel > 16, and
\* an engine and no error otherwise.
C15_ErrorIffOutOfRange ==
    call.op = "NewSymSpell" =>
        LET outOfRange ==
                \/ call.initialCapacity < 0
                \/ call.maxDictionaryEditDistance < 0
                \/ call.prefixLength <= max(1, call.maxDictionaryEditDistance)
                \/ I64Less(call.countThreshold, I64(0))
                \/ call.compactLevel > 16
        IN  /\ (call.err # NoError) <=> outOfRange
            /\ call.engine <=> ~outOfRange

\* the strings left of word by deleting at most n of its characters
RECURSIVE Deletions(_, _)
Deletions(word, n) ==
    IF n = 0 THEN {word}
    ELSE {word} \cup UNION {Deletions(DeleteAt(word, i), n - 1) : i \in 0..(Len(word) - 1)}

\* C18: EditsPrefix(key) is exactly the set of the strings left of the
\* first prefixLength characters of key by deleting 0 to
\* maxDictionaryEditDistance of them, with the empty string added exactly
\* when len(key) <= maxDictionaryEditDistance; this for every
\* maxDictionaryEditDistance >= 0.
C18_EditsPrefixIsDeletionSet ==
    call.op = "EditsPrefix" =>
        LET prefix == IF Len(call.key) > prefixLength
                      THEN SubSeq(call.key, 1, prefixLength) ELSE call.key
        IN  call.ret = Deletions(prefix, maxDictionaryEditDistance)
                       \cup (IF Len(call.key) <= maxDictionaryEditDistance
                             THEN {<< >>} ELSE {})

\* C19: what Distance returns on a comparer that earlier calls have used
\* is what the same call returns on a comparer just created.
C19_DistanceIgnoresEarlierCalls ==
    call.op = "Distance" =>
        call.ret = Distance(NewDamerauOSA, call.string1, call.string2, call.maxDistance).res

\* a second call on a comparer went through the cost rows, over scratch
\* arrays that the first call had filled
C19_Witness ==
    /\ call.op = "Distance"
    /\ calls = 2
    /\ call.ret > 1
    /\ Len(call.string1) > 1
    /\ Len(call.string2) = Len(call.string1)
    /\ call.string1[1] # call.string2[1]
    /\ call.string1[Len(call.string1)] # call.string2[Len(call.string2)]
    /\ Len(comparer.baseChar1Costs) > Len(call.string1)
    /\ comparer.basePrevChar1Costs # Zeros(Len(comparer.basePrevChar1Costs))

\* C17: hash collisions do not change what Lookup returns: two engines that
\* differ only in compactLevel and were given the same insertions can return
\* the same lists for the same query.
C17_CompactLevelDoesNotChangeLookup ==
    call.op = "Lookup" /\ twin # Nil => call.lists = call.twinLists

\* C16: LookupCompound returns exactly one item, whose distance is the
\* Damerau-OSA distance between the input as given and the composed term,
\* never -1.
C16_CompoundDistanceIsTrue ==
    call.op = "LookupCompound" =>
        /\ Len(call.ret) = 1
        /\ call.ret[1].distance # -1
        /\ call.ret[1].distance =
               OSA(call.input, call.ret[1].term, Len(call.input), Len(call.ret[1].term))

====
